---------------------------- MODULE Spec2Model ----------------------------
(***************************************************************************)
(* A model of git-arr's git.py: the memoized Repo handle (functools        *)
(* lru_cache around every query) and the parsers of git's plumbing output  *)
(* (rev-list --header, diff-tree --numstat --patch, cat-file --batch),     *)
(* the filename dequoter and the Date value.                               *)
(*                                                                         *)
(* Text is modelled as a sequence of one-character strings; "\n" is the    *)
(* line feed, "\t" the tab and "0x00" stands for the NUL byte.             *)
(***************************************************************************)
EXTENDS Integers, Sequences, FiniteSets, TLC

VARIABLES
    cache,      \* per cached method: its lru_cache keys, least recently used first
    recency,    \* history: per method, every key ever computed, by last use
    last,       \* the most recent call on the handle and how it was served
    next,       \* the caller's paging position: history pages requested so far
    fn,         \* parser under test ("none" while the handle is exercised)
    arg,        \* its input, drawn by the initial state
    res,        \* its result, written when it has run
    pc          \* "idle", "ready", "loop", "done" or "raised"

vars == <<cache, recency, last, next, fn, arg, res, pc>>

cacheVars == <<cache, recency, last, next>>
fnVars == <<fn, arg, res, pc>>

----------------------------------------------------------------------------
(* Sequence helpers. *)

Range(s) == {s[i] : i \in 1..Len(s)}

Remove(s, x) == SelectSeq(s, LAMBDA y : y /= x)

Min(a, b) == IF a < b THEN a ELSE b

\* s[i:] and s[:j] of Python, 0-based, for 0 <= i, j
From(s, i) == SubSeq(s, Min(i, Len(s)) + 1, Len(s))
UpTo(s, j) == SubSeq(s, 1, Min(j, Len(s)))

\* the last n elements of s
LastN(s, n) == From(s, Len(s) - Min(n, Len(s)))

----------------------------------------------------------------------------
(* Text: str and bytes values are sequences of one-character strings.      *)

LF == "\n"
TAB == "\t"
SP == " "
NUL == "0x00"
QUOTE == "\""
BACKSLASH == "\\"

\* the characters str.strip() and str.rstrip() remove, of those modelled
Whitespace == {SP, LF, TAB}

Digits == <<"0", "1", "2", "3", "4", "5", "6", "7", "8", "9">>
IsDigit(c) == c \in Range(Digits)
DigitOf(c) == (CHOOSE i \in 1..10 : Digits[i] = c) - 1

\* the least index in S, 0 when S is empty
First(S) == IF S = {} THEN 0 ELSE CHOOSE i \in S : \A j \in S : i <= j

\* the greatest index in S, 0 when S is empty
Final(S) == IF S = {} THEN 0 ELSE CHOOSE i \in S : \A j \in S : j <= i

\* the index of the first c in s, 0 when there is none
Index(s, c) == First({i \in 1..Len(s) : s[i] = c})

\* the index of the last c in s, 0 when there is none
LastIndex(s, c) == Final({i \in 1..Len(s) : s[i] = c})

\* the index at which the first occurrence of the two characters a b starts
Index2(s, a, b) == First({i \in 1..(Len(s) - 1) : s[i] = a /\ s[i + 1] = b})

\* s.split(c, 1): one part when c is not in s, else two
Split1(s, c) ==
    LET i == Index(s, c)
    IN  IF i = 0 THEN <<s>>
        ELSE <<SubSeq(s, 1, i - 1), SubSeq(s, i + 1, Len(s))>>

\* s.split(c): every part, at least one
RECURSIVE Split(_, _)
Split(s, c) ==
    LET i == Index(s, c)
    IN  IF i = 0 THEN <<s>>
        ELSE <<SubSeq(s, 1, i - 1)>> \o Split(SubSeq(s, i + 1, Len(s)), c)

\* s.rsplit(c, 2): at most three parts, split from the right
RSplit2(s, c) ==
    LET j == LastIndex(s, c)
        t == SubSeq(s, 1, j - 1)
        i == LastIndex(t, c)
    IN  IF j = 0 THEN <<s>>
        ELSE IF i = 0 THEN <<t, SubSeq(s, j + 1, Len(s))>>
        ELSE <<SubSeq(t, 1, i - 1), SubSeq(t, i + 1, Len(t)),
               SubSeq(s, j + 1, Len(s))>>

RStrip(s) == SubSeq(s, 1, Final({i \in 1..Len(s) : s[i] \notin Whitespace}))

LStrip(s) ==
    LET i == First({j \in 1..Len(s) : s[j] \notin Whitespace})
    IN  IF i = 0 THEN <<>> ELSE SubSeq(s, i, Len(s))

Strip(s) == LStrip(RStrip(s))

\* s.rstrip("\n")
RStripLF(s) == SubSeq(s, 1, Final({i \in 1..Len(s) : s[i] /= LF}))

\* s.replace(a, b) for single characters
Replace(s, a, b) == [i \in 1..Len(s) |-> IF s[i] = a THEN b ELSE s[i]]

\* iterating a stream: its lines, each with its line feed, the last one
\* possibly without
RECURSIVE Lines(_)
Lines(s) ==
    LET i == Index(s, LF)
    IN  IF s = <<>> THEN <<>>
        ELSE IF i = 0 THEN <<s>>
        ELSE <<SubSeq(s, 1, i)>> \o Lines(SubSeq(s, i + 1, Len(s)))

RECURSIVE Concat(_)
Concat(ss) == IF ss = <<>> THEN <<>> ELSE Head(ss) \o Concat(Tail(ss))

\* a result: the value returned, or the exception raised
Return(v) == [exc |-> "none", val |-> v]
Raise(e) == [exc |-> e, val |-> <<>>]
NoResult == [exc |-> "pending", val |-> <<>>]

\* whether int(s) accepts s: surrounding whitespace, a sign, then digits
IsInt(s) ==
    LET t == Strip(s)
        d == IF t /= <<>> /\ Head(t) \in {"+", "-"} THEN Tail(t) ELSE t
    IN  d /= <<>> /\ \A i \in 1..Len(d) : IsDigit(d[i])

RECURSIVE Decimal(_)
Decimal(d) ==
    IF d = <<>> THEN 0
    ELSE 10 * Decimal(SubSeq(d, 1, Len(d) - 1)) + DigitOf(d[Len(d)])

\* int(s), for s that int accepts
Int_(s) ==
    LET t == Strip(s)
    IN  IF Head(t) = "-" THEN 0 - Decimal(Tail(t))
        ELSE IF Head(t) = "+" THEN Decimal(Tail(t))
        ELSE Decimal(t)

----------------------------------------------------------------------------
(* class Date                                                              *)

\* the minutes field of the zone as Date.__init__ slices it
TzMinuteText(tz) == From(tz, 4)

\* Date.__init__(epoch, tz).  utc and local are instants in seconds since
\* 1970-01-01T00:00 on their own clocks; str keeps the day number where
\* strftime prints the calendar date.
Date(epoch, tz) ==
    LET hh == SubSeq(tz, 2, Min(3, Len(tz)))
        mm == TzMinuteText(tz)
    IN  IF ~IsInt(epoch) THEN Raise("ValueError")
        ELSE IF ~IsInt(hh) \/ ~IsInt(mm) THEN Raise("ValueError")
        ELSE
          LET utc == Int_(epoch)
              mins == Int_(hh) * 60 + Int_(mm)
              off == IF tz[1] = "-" THEN 0 - mins ELSE mins
              local == utc + 60 * off
              tod == utc % 86400
              ltod == local % 86400
          IN  Return([epoch |-> utc, tz |-> tz, utc |-> utc,
                      tz_sec_offset_min |-> off, local |-> local,
                      str |-> [day |-> utc \div 86400,
                               hms |-> <<tod \div 3600, (tod \div 60) % 60, tod % 60>>,
                               zone |-> "+0000",
                               local_hm |-> <<ltod \div 3600, (ltod \div 60) % 60>>,
                               tz |-> tz]])


----------------------------------------------------------------------------
(* class Commit                                                            *)

\* mutant: subject and body split at the last line feed of the message
subject_body_last(message) ==
    LET j == LastIndex(message, LF)
    IN  IF j = 0 THEN <<message>>
        ELSE <<SubSeq(message, 1, j - 1), SubSeq(message, j + 1, Len(message))>>

\* self.subject, self.body = self.message.split("\n", 1)
subject_body(message) == Split1(message, LF)

\* Commit.__init__.  The name and e-mail that email.utils.parseaddr derives
\* from author and committer are left out: parseaddr never raises.
Commit(commit_id, parents, tree, author, author_epoch, author_tz, committer, committer_epoch, committer_tz, message) ==
    LET sb == subject_body(message)
        author_date == Date(author_epoch, author_tz)
        committer_date == Date(committer_epoch, committer_tz)
    IN  IF Len(sb) /= 2 THEN Raise("ValueError")
        ELSE IF author_date.exc /= "none" THEN author_date
        ELSE IF committer_date.exc /= "none" THEN committer_date
        ELSE Return([id |-> commit_id, parents |-> parents, tree |-> tree,
                     author |-> author, author_epoch |-> author_epoch,
                     author_tz |-> author_tz, committer |-> committer,
                     committer_epoch |-> committer_epoch,
                     committer_tz |-> committer_tz, message |-> message,
                     subject |-> sb[1], body |-> sb[2],
                     author_date |-> author_date.val,
                     committer_date |-> committer_date.val])

W_tree == <<"t", "r", "e", "e">>
W_parent == <<"p", "a", "r", "e", "n", "t">>
W_author == <<"a", "u", "t", "h", "o", "r">>
W_committer == <<"c", "o", "m", "m", "i", "t", "t", "e", "r">>

\* header_dict[key]: the values of the header lines with that key, in order
RECURSIVE header_values(_, _)
header_values(header_lines, key) ==
    IF header_lines = <<>> THEN <<>>
    ELSE LET kv == Split1(Head(header_lines), SP)
         IN  (IF kv[1] = key THEN <<kv[2]>> ELSE <<>>)
                \o header_values(Tail(header_lines), key)

\* the message: every line of raw_message without its first four
\* characters, each followed by a line feed
RECURSIVE unindent(_)
unindent(lines) ==
    IF lines = <<>> THEN <<>>
    ELSE From(Head(lines), 4) \o <<LF>> \o unindent(Tail(lines))

\* Commit.from_str(repo, buf)
Commit_from_str(buf) ==
    LET sep == Index2(buf, LF, LF)
        header == IF sep > 0 THEN SubSeq(buf, 1, sep - 1) ELSE RStrip(buf)
        raw_message == IF sep > 0 THEN SubSeq(buf, sep + 2, Len(buf))
                       ELSE <<SP, SP, SP, SP>>
        all_lines == Split(header, LF)
        commit_id == Head(all_lines)
        header_lines == Tail(all_lines)
        trees == header_values(header_lines, W_tree)
        authors == header_values(header_lines, W_author)
        committers == header_values(header_lines, W_committer)
        a == RSplit2(authors[1], SP)
        c == RSplit2(committers[1], SP)
    IN  IF \E i \in 1..Len(header_lines) : Len(Split1(header_lines[i], SP)) /= 2
            THEN Raise("ValueError")
        ELSE IF trees = <<>> THEN Raise("IndexError")
        ELSE IF authors = <<>> THEN Raise("IndexError")
        ELSE IF Len(a) /= 3 THEN Raise("ValueError")
        ELSE IF committers = <<>> THEN Raise("IndexError")
        ELSE IF Len(c) /= 3 THEN Raise("ValueError")
        ELSE Commit(commit_id, Range(header_values(header_lines, W_parent)),
                    trees[1], a[1], a[2], a[3], c[1], c[2], c[3],
                    unindent(Split(raw_message, LF)))

----------------------------------------------------------------------------
(* Repo.commits: the loop over the lines of git rev-list --header          *)

\* mutant: the text after the NUL is dropped
buffer_after_drop(post) == <<>>

\* info_buffer = post: the next record starts with what follows the NUL
buffer_after(post) == post

\* mutant: a skipped record is parsed too, and only its Commit dropped
record_commit_parse_skipped(count, offset, info_buffer) ==
    LET c == Commit_from_str(info_buffer)
    IN  IF c.exc /= "none" THEN c
        ELSE IF count > offset THEN Return(<<c.val>>) ELSE Return(<<>>)

\* if count > offset: commits.append(Commit.from_str(self, info_buffer))
\* what is appended to commits, or the exception of Commit.from_str
appended(c) == IF c.exc /= "none" THEN c ELSE Return(<<c.val>>)

record_commit(count, offset, info_buffer) ==
    IF count > offset THEN appended(Commit_from_str(info_buffer))
    ELSE Return(<<>>)

\* one iteration of "for l in cmd.run()" on the loop state st
\* the loop state after a line with a NUL: got is what record_commit gave
\* for the record that ends at the NUL, post the text after the NUL
commits_record_end(st, got, post) ==
    IF got.exc /= "none" THEN got
    ELSE Return([info_buffer |-> buffer_after(post),
                 count |-> st.count + 1,
                 commits |-> st.commits \o got.val])

commits_line(st, l, offset) ==
    LET parts == Split1(l, NUL)
    IN  IF Len(parts) = 2
        THEN commits_record_end(
                 st,
                 record_commit(st.count + 1, offset, st.info_buffer \o parts[1]),
                 parts[2])
        ELSE Return([st EXCEPT !.info_buffer = @ \o l])

\* after the loop: what is left in info_buffer is one more record
\* mutant: the record left in info_buffer is parsed and not appended
commits_last_dropped(st, got) ==
    IF got.exc /= "none" THEN got ELSE Return(st.commits)

commits_last(st, got) ==
    IF got.exc /= "none" THEN got ELSE Return(st.commits \o got.val)

commits_end(st, offset) ==
    IF st.info_buffer /= <<>>
    THEN commits_last(st, record_commit(st.count + 1, offset, st.info_buffer))
    ELSE Return(st.commits)


----------------------------------------------------------------------------
(* unquote.  The names modelled are ASCII, so that encode("latin1") and    *)
(* decode("utf8") leave them as they are; the escapes modelled are those   *)
(* of the characters t, f, the double quote and the backslash, and a       *)
(* backslash before any other modelled character stays, as the             *)
(* unicode-escape codec leaves an unknown escape.                          *)

FF == "\f"

\* whether decode("unicode-escape") raises: a backslash ends the text
RECURSIVE escape_error(_)
escape_error(s) ==
    IF s = <<>> THEN FALSE
    ELSE IF Head(s) /= BACKSLASH THEN escape_error(Tail(s))
    ELSE IF Len(s) = 1 THEN TRUE
    ELSE escape_error(Tail(Tail(s)))

\* decode("unicode-escape") of a text it accepts
RECURSIVE escape_decode(_)
escape_decode(s) ==
    IF s = <<>> THEN <<>>
    ELSE IF Head(s) /= BACKSLASH THEN <<Head(s)>> \o escape_decode(Tail(s))
    ELSE (CASE s[2] = "t" -> <<TAB>>
            [] s[2] = "f" -> <<FF>>
            [] s[2] = QUOTE -> <<QUOTE>>
            [] s[2] = BACKSLASH -> <<BACKSLASH>>
            [] OTHER -> <<BACKSLASH, s[2]>>)
         \o escape_decode(Tail(Tail(s)))

\* unquote(s)
unquote(s) ==
    IF s = <<>> THEN Raise("IndexError")
    ELSE IF ~(s[1] = QUOTE /\ s[Len(s)] = QUOTE) THEN Return(s)
    ELSE LET inner == SubSeq(s, 2, Len(s) - 1)
         IN  IF escape_error(inner) THEN Raise("UnicodeDecodeError")
             ELSE Return(escape_decode(inner))

----------------------------------------------------------------------------
(* class Diff                                                              *)

None == <<"None">>

\* s.split(c, 2): at most three parts
Split2(s, c) ==
    LET p == Split1(s, c)
    IN  IF Len(p) = 1 THEN p ELSE <<p[1]>> \o Split1(p[2], c)

\* mutant: the count is read as it stands
count_text_asis(field) == field

\* added = added.replace("-", "0")
count_text(field) == Replace(field, "-", "0")

\* the numstat loop of Diff.from_str from line i on: the changes parsed
\* and the index of the blank line that ends them, or the exception
RECURSIVE numstat(_, _, _)
numstat(lines, i, changes) ==
    IF i > Len(lines) THEN Raise("StopIteration")
    ELSE IF lines[i] = <<LF>> THEN Return([changes |-> changes, at |-> i])
    ELSE LET f == Split2(RStripLF(lines[i]), TAB)
             added == count_text(f[1])
             deleted == count_text(f[2])
             fname == unquote(f[3])
         IN  IF Len(f) /= 3 THEN Raise("ValueError")
             ELSE IF fname.exc /= "none" THEN fname
             ELSE IF ~IsInt(added) \/ ~IsInt(deleted) THEN Raise("ValueError")
             ELSE numstat(lines, i + 1,
                          changes \o <<<<Int_(added), Int_(deleted), fname.val>>>>)

\* Diff.from_str(buf)
Diff_from_str(buf) ==
    LET lines == Lines(buf)
        stat == numstat(lines, 2, <<>>)
    IN  IF lines = <<>> THEN Return([ref |-> None, changes |-> <<>>, body |-> <<>>])
        ELSE IF stat.exc /= "none" THEN stat
        ELSE Return([ref |-> lines[1],
                     changes |-> stat.val.changes,
                     body |-> Concat(SubSeq(lines, stat.val.at + 1, Len(lines)))])

----------------------------------------------------------------------------
(* Repo.blob: reading the answer of git cat-file --batch=%(objectsize)     *)

W_missing == <<"m", "i", "s", "s", "i", "n", "g">>

EndsWith(s, t) == Len(s) >= Len(t) /\ LastN(s, Len(t)) = t

\* mutant: the content is read up to the next line feed
blob_content_line(rest, size) ==
    LET i == Index(rest, LF)
    IN  IF i = 0 THEN rest ELSE SubSeq(rest, 1, i - 1)

\* out.read()[: int(head)]
blob_content(rest, size) == UpTo(rest, size)

\* the body of Repo.blob on the output out of the command
blob_read(out) ==
    LET i == Index(out, LF)
        head == IF i = 0 THEN out ELSE SubSeq(out, 1, i)
        rest == From(out, Len(head))
    IN  IF head = <<>> \/ EndsWith(Strip(head), W_missing)
            THEN Return([kind |-> "None", raw_content |-> <<>>])
        ELSE IF ~IsInt(head) THEN Raise("ValueError")
        ELSE IF Int_(head) < 0
            THEN Return([kind |-> "Blob",
                         raw_content |-> UpTo(rest, Len(rest) + Int_(head))])
        ELSE Return([kind |-> "Blob",
                     raw_content |-> blob_content(rest, Int_(head))])


----------------------------------------------------------------------------
(* functools.lru_cache, as applied bare to the Repo methods: maxsize 128.   *)

\* maxsize of a bare @functools.lru_cache
MaxSize == 128

\* the pages of history the caller walks through
MaxPages == 130

KWD_MARK == "kwd_mark"

\* functools._make_key: the positional arguments, then a mark and the
\* keyword items when keywords are passed
make_key(args, kwds) ==
    IF kwds = <<>> THEN args ELSE args \o <<KWD_MARK>> \o kwds

lru_hit(c, k) == k \in Range(c)

\* mutant: a hit leaves the order alone (first in, first out)
lru_touch_fifo(c, k) == c

\* a hit moves the entry to the most recently used end
lru_touch(c, k) == Remove(c, k) \o <<k>>

\* mutant: a full cache drops its newest entry
lru_store_newest(c, k) ==
    IF Len(c) >= MaxSize THEN UpTo(c, Len(c) - 1) \o <<k>> ELSE c \o <<k>>

\* a miss stores the result; a full cache drops its oldest entry first
lru_store(c, k) ==
    IF Len(c) >= MaxSize THEN Tail(c) \o <<k>> ELSE c \o <<k>>

\* the cache after wrapper(key) when the wrapped function raises (raised)
\* or returns: an exception leaves the cache as it was
lru_after(c, k, raised) ==
    IF lru_hit(c, k) THEN lru_touch(c, k)
    ELSE IF raised THEN c
    ELSE lru_store(c, k)

\* history: the keys computed so far, least recently used first, unbounded
used_after(r, k, raised) ==
    IF k \in Range(r) THEN Remove(r, k) \o <<k>>
    ELSE IF raised THEN r
    ELSE r \o <<k>>

----------------------------------------------------------------------------
(* The repository behind the handle: it does not change while the handle   *)
(* lives.  The ref "bad" stands for a ref whose rev-list output does not   *)
(* parse, so that Repo.commits raises on it.                               *)

Ref == "HEAD"
BadRef == "bad"

\* whether Repo.commits(ref, ...) raises on this repository
commits_raises(ref) == ref = BadRef

\* the n-th distinct query of the paging caller: limits 1 and 2, offsets 0, 1, ...
PageKey(n) == <<Ref, 1 + (n % 2), n \div 2>>

----------------------------------------------------------------------------
(* The cached methods of Repo.                                             *)

Served(op, k, spawned, raised) ==
    [op |-> op, key |-> k, spawned |-> spawned, raised |-> raised,
     known |-> k \in Range(recency[op])]

\* Repo.commits(ref, limit, offset): on a miss the method body runs git rev-list
Repo_commits(ref, limit, offset) ==
    LET k == make_key(<<ref, limit, offset>>, <<>>)
        hit == lru_hit(cache.commits, k)
        raised == ~hit /\ commits_raises(ref)
    IN  /\ cache' = [cache EXCEPT !.commits = lru_after(@, k, raised)]
        /\ recency' = [recency EXCEPT !.commits = used_after(@, k, raised)]
        /\ last' = Served("commits", k, ~hit, raised)

\* Repo.commit(commit_id): on a miss the body calls self.commits(commit_id, limit=1),
\* itself a cached call, keyed by its keyword form
Repo_commit(commit_id) ==
    LET k == make_key(<<commit_id>>, <<>>)
        ik == make_key(<<commit_id>>, <<"limit", 1>>)
        hit == lru_hit(cache.commit, k)
        ihit == lru_hit(cache.commits, ik)
        raised == ~hit /\ ~ihit /\ commits_raises(commit_id)
    IN  /\ cache' = [cache EXCEPT
                       !.commit = lru_after(@, k, raised),
                       !.commits = IF hit THEN @ ELSE lru_after(@, ik, raised)]
        /\ recency' = [recency EXCEPT
                       !.commit = used_after(@, k, raised),
                       !.commits = IF hit THEN @ ELSE used_after(@, ik, raised)]
        /\ last' = Served("commit", k, ~hit /\ ~ihit, raised)

\* Repo.blob(path, ref): on a miss the body runs git cat-file; a missing
\* object returns None, which is cached like any result
Repo_blob(path, ref) ==
    LET k == make_key(<<path, ref>>, <<>>)
        hit == lru_hit(cache.blob, k)
    IN  /\ cache' = [cache EXCEPT !.blob = lru_after(@, k, FALSE)]
        /\ recency' = [recency EXCEPT !.blob = used_after(@, k, FALSE)]
        /\ last' = Served("blob", k, ~hit, FALSE)

----------------------------------------------------------------------------
(* The caller: it pages through the history, may come back to the first    *)
(* page at any time, and looks single commits and blobs up.                *)

NoCall == [op |-> "none", key |-> <<>>, spawned |-> FALSE, raised |-> FALSE,
           known |-> FALSE]

FnIdle == fn = "none" /\ arg = <<>> /\ res = <<>> /\ pc = "idle"

Init ==
    /\ cache = [commits |-> <<>>, commit |-> <<>>, blob |-> <<>>]
    /\ recency = [commits |-> <<>>, commit |-> <<>>, blob |-> <<>>]
    /\ last = NoCall
    /\ next = 0
    /\ FnIdle

NextPage ==
    /\ next < MaxPages
    /\ Repo_commits(PageKey(next)[1], PageKey(next)[2], PageKey(next)[3])
    /\ next' = next + 1
    /\ UNCHANGED fnVars

FirstPage ==
    /\ Repo_commits(PageKey(0)[1], PageKey(0)[2], PageKey(0)[3])
    /\ UNCHANGED <<next, fnVars>>

BadPage ==
    /\ Repo_commits(BadRef, 1, 0)
    /\ UNCHANGED <<next, fnVars>>

LookupCommit ==
    /\ next = 0
    /\ \E id \in {Ref, BadRef} : Repo_commit(id)
    /\ UNCHANGED <<next, fnVars>>

FetchBlob ==
    /\ Repo_blob(<<"f">>, Ref)
    /\ UNCHANGED <<next, fnVars>>

Next == NextPage \/ FirstPage \/ BadPage \/ LookupCommit \/ FetchBlob

Spec == Init /\ [][Next]_vars

----------------------------------------------------------------------------
(* The parsers and values are exercised one call at a time: the initial    *)
(* state draws the input, the action applies the code to it.  The handle   *)
(* stays as constructed meanwhile.                                         *)

HandleIdle ==
    /\ cache = [commits |-> <<>>, commit |-> <<>>, blob |-> <<>>]
    /\ recency = [commits |-> <<>>, commit |-> <<>>, blob |-> <<>>]
    /\ last = NoCall
    /\ next = 0

\* where a call ends: it returned, or it raised
After(r) == IF r.exc = "none" THEN "done" ELSE "raised"

Ready(f, inputs) ==
    /\ HandleIdle
    /\ fn = f
    /\ arg \in inputs
    /\ res = NoResult
    /\ pc = "ready"

\* ---- Date ----

EpochTexts ==
    {<<"0">>, <<"3", "6", "0", "0">>, <<"8", "4", "6", "0", "0">>}

ZoneTexts ==
    {<<s, h1, h2, m1, m2>> : s \in {"+", "-"}, h1 \in {"0", "1"},
        h2 \in {"0", "5", "8"}, m1 \in {"0", "3", "4"}, m2 \in {"0", "5"}}

InitDate == Ready("Date", [epoch : EpochTexts, tz : ZoneTexts])

NewDate ==
    /\ pc = "ready" /\ fn = "Date"
    /\ res' = Date(arg.epoch, arg.tz)
    /\ pc' = After(res')
    /\ UNCHANGED <<fn, arg, cacheVars>>

SpecDate == InitDate /\ [][NewDate]_vars


\* ---- Repo.commits on a rev-list stream ----

HdrLine(key, value) == key \o <<SP>> \o value \o <<LF>>

TreeLine == HdrLine(W_tree, <<"T">>)
ParentLine == HdrLine(W_parent, <<"p">>)
AuthorLine == HdrLine(W_author, <<"A", SP, "B", SP, "7", SP, "+", "0", "0", "0", "0">>)
CommitterLine == HdrLine(W_committer, <<"C", SP, "9", SP, "-", "0", "8", "0", "0">>)
MessageText == <<LF, SP, SP, SP, SP, "s", LF, SP, SP, SP, SP, "b", LF>>

\* the records git may print, each with what is wrong with it: "none" for a
\* well-formed record, a header line without a space, a required header that
\* is missing, or a record that is a bare id without a line feed
RecFull ==
    [text |-> <<"c", "1", LF>> \o TreeLine \o ParentLine \o AuthorLine
                \o CommitterLine \o MessageText,
     defect |-> "none"]
RecHeaderOnly ==
    [text |-> <<"c", "2", LF>> \o TreeLine \o AuthorLine \o CommitterLine,
     defect |-> "none"]
RecNoSpace ==
    [text |-> <<"c", "3", LF>> \o TreeLine \o <<"x", LF>> \o AuthorLine
                \o CommitterLine \o MessageText,
     defect |-> "nospace"]
RecNoTree ==
    [text |-> <<"c", "4", LF>> \o AuthorLine \o CommitterLine \o MessageText,
     defect |-> "notree"]
RecNoAuthor ==
    [text |-> <<"c", "5", LF>> \o TreeLine \o CommitterLine,
     defect |-> "noauthor"]
RecNoCommitter ==
    [text |-> <<"c", "6", LF>> \o TreeLine \o AuthorLine \o MessageText,
     defect |-> "nocommitter"]
RecNoLF ==
    [text |-> <<"c", "7">>, defect |-> "nolf"]

Records ==
    {RecFull, RecHeaderOnly, RecNoSpace, RecNoTree, RecNoAuthor,
     RecNoCommitter, RecNoLF}

\* what may follow the last NUL when the output is cut short: nothing, or
\* the start of a record, cut in its message or in its header
Tails ==
    {<<>>,
     UpTo(RecFull.text, Len(RecFull.text) - 3),
     UpTo(RecFull.text, 12)}

\* the most records a stream holds
MaxRecords == 3

Limits == {1, 2}
Offsets == {0, 1, 2}

SeqsUpTo(S, n) == UNION {[1..k -> S] : k \in 0..n}

\* git rev-list --max-count=limit+offset prints at most that many records
CommitsInputs ==
    {in \in [records : SeqsUpTo(Records, MaxRecords), tail : Tails,
             limit : Limits, offset : Offsets] :
        Len(in.records) + (IF in.tail = <<>> THEN 0 ELSE 1)
            <= in.limit + in.offset}

\* the stream: every record followed by a NUL, then the tail
RECURSIVE rev_list_output(_, _)
rev_list_output(records, tail) ==
    IF records = <<>> THEN tail
    ELSE Head(records).text \o <<NUL>> \o rev_list_output(Tail(records), tail)

InitCommits == Ready("commits", CommitsInputs)

\* the call after one line: the exception, or the loop on the lines left
loop_next(call, r) ==
    IF r.exc /= "none" THEN r
    ELSE [call EXCEPT !.val.lines = Tail(@), !.val.st = r.val]

\* cmd.run(), info_buffer = "", count = 0, commits = []
CommitsRun ==
    /\ pc = "ready" /\ fn = "commits"
    /\ res' = [exc |-> "pending",
               val |-> [lines |-> Lines(rev_list_output(arg.records, arg.tail)),
                        st |-> [info_buffer |-> <<>>, count |-> 0,
                                commits |-> <<>>]]]
    /\ pc' = "loop"
    /\ UNCHANGED <<fn, arg, cacheVars>>

CommitsLine ==
    /\ pc = "loop" /\ fn = "commits"
    /\ res.val.lines /= <<>>
    /\ res' = loop_next(res, commits_line(res.val.st, Head(res.val.lines),
                                           arg.offset))
    /\ pc' = IF res'.exc = "pending" THEN "loop" ELSE "raised"
    /\ UNCHANGED <<fn, arg, cacheVars>>

CommitsReturn ==
    /\ pc = "loop" /\ fn = "commits"
    /\ res.val.lines = <<>>
    /\ res' = commits_end(res.val.st, arg.offset)
    /\ pc' = After(res')
    /\ UNCHANGED <<fn, arg, cacheVars>>

NextCommits == CommitsRun \/ CommitsLine \/ CommitsReturn

SpecCommits == InitCommits /\ [][NextCommits]_vars

\* ---- Commit.from_str on one record ----

\* the longest message section
MaxMsgLen == 6

HeaderText == <<"c", "2", LF>> \o TreeLine \o AuthorLine \o CommitterLine

\* a record: the header alone, or the header, a blank line and any text of
\* spaces, letters and line feeds
FromStrInputs ==
    {HeaderText}
        \cup {HeaderText \o <<LF>> \o m : m \in SeqsUpTo({SP, "s", LF}, MaxMsgLen)}

InitFromStr == Ready("from_str", FromStrInputs)

ParseCommit ==
    /\ pc = "ready" /\ fn = "from_str"
    /\ res' = Commit_from_str(arg)
    /\ pc' = After(res')
    /\ UNCHANGED <<fn, arg, cacheVars>>

SpecFromStr == InitFromStr /\ [][ParseCommit]_vars


\* ---- Diff.from_str on a diff-tree stream ----

W_file_bin == <<"f", "i", "l", "e", ".", "b", "i", "n">>

\* numstat lines, each with the change record it stands for
StatText == [text |-> <<"1", "2", TAB, "0", TAB, "f", LF>>,
             change |-> <<12, 0, <<"f">>>>]
StatBinary == [text |-> <<"-", TAB, "3", TAB>> \o W_file_bin \o <<LF>>,
               change |-> <<0, 3, W_file_bin>>]
StatBothBinary == [text |-> <<"-", TAB, "-", TAB, "b", LF>>,
                   change |-> <<0, 0, <<"b">>>>]
StatQuoted ==
    [text |-> <<"4", TAB, "7", TAB, QUOTE, "a", BACKSLASH, "t", "b", QUOTE, LF>>,
     change |-> <<4, 7, <<"a", TAB, "b">>>>]

StatLines == {StatText, StatBinary, StatBothBinary, StatQuoted}

\* the most numstat lines of a stream
MaxChanges == 2

RefIds == {<<"r", "1">>}

Bodies == {<<>>, <<"+", "x", LF>>, <<"+", "x", LF, LF, "-", "y">>}

\* a stream: the reference line or none, numstat lines, the blank line or
\* none, the patch
DiffInputs ==
    [ref : RefIds \cup {<<>>}, stats : SeqsUpTo(StatLines, MaxChanges),
     blank : BOOLEAN, body : Bodies]

RECURSIVE stat_text(_)
stat_text(stats) ==
    IF stats = <<>> THEN <<>> ELSE Head(stats).text \o stat_text(Tail(stats))

diff_tree_output(in) ==
    (IF in.ref = <<>> THEN <<>> ELSE in.ref \o <<LF>>)
        \o stat_text(in.stats)
        \o (IF in.blank THEN <<LF>> ELSE <<>>)
        \o in.body

InitDiff == Ready("Diff", DiffInputs)

ParseDiff ==
    /\ pc = "ready" /\ fn = "Diff"
    /\ res' = Diff_from_str(diff_tree_output(arg))
    /\ pc' = After(res')
    /\ UNCHANGED <<fn, arg, cacheVars>>

SpecDiff == InitDiff /\ [][ParseDiff]_vars

\* ---- unquote on a name ----

\* the longest name
MaxNameLen == 4

NameChars == {QUOTE, BACKSLASH, "t", "i"}

InitUnquote == Ready("unquote", SeqsUpTo(NameChars, MaxNameLen))

Dequote ==
    /\ pc = "ready" /\ fn = "unquote"
    /\ res' = unquote(arg)
    /\ pc' = After(res')
    /\ UNCHANGED <<fn, arg, cacheVars>>

SpecUnquote == InitUnquote /\ [][Dequote]_vars

\* ---- Repo.blob on a cat-file answer ----

\* the longest content, but for LongContent
MaxBlobLen == 4

LongContent == <<"a", NUL, LF, "a", "a", LF, LF, NUL, "a", "a", "a", LF>>

BlobInputs ==
    [missing : {FALSE},
     content : SeqsUpTo({"a", NUL, LF}, MaxBlobLen) \cup {LongContent}]
        \cup [missing : {TRUE}, content : {<<>>}]

\* the decimal text of n < 100
DecimalText(n) ==
    IF n < 10 THEN <<Digits[n + 1]>>
    ELSE <<Digits[(n \div 10) + 1], Digits[(n % 10) + 1]>>

\* git answers "<object> missing" for an object it does not have, else the
\* size, a line feed, the content and a line feed
cat_file_output(in) ==
    IF in.missing
    THEN <<"r", ":", "p", SP>> \o W_missing \o <<LF>>
    ELSE DecimalText(Len(in.content)) \o <<LF>> \o in.content \o <<LF>>

InitBlob == Ready("blob", BlobInputs)

ReadBlob ==
    /\ pc = "ready" /\ fn = "blob"
    /\ res' = blob_read(cat_file_output(arg))
    /\ pc' = After(res')
    /\ UNCHANGED <<fn, arg, cacheVars>>

SpecBlob == InitBlob /\ [][ReadBlob]_vars

\* ---- Tree.ls on a listing of git ls-tree --long ----

\* l.split(None, maxsplit) of a text t without leading whitespace: fields
\* between runs of whitespace; after maxsplit fields the rest of the text,
\* stripped of the whitespace before it, is the last field as it is
RECURSIVE split_fields(_, _)
split_fields(t, maxsplit) ==
    IF t = <<>> THEN <<>>
    ELSE IF maxsplit = 0 \/ First({j \in 1..Len(t) : t[j] \in Whitespace}) = 0
    THEN <<t>>
    ELSE <<SubSeq(t, 1, First({j \in 1..Len(t) : t[j] \in Whitespace}) - 1)>>
            \o split_fields(
                LStrip(SubSeq(t, First({j \in 1..Len(t) : t[j] \in Whitespace}),
                              Len(t))),
                maxsplit - 1)

\* l.split(None, maxsplit)
SplitNone(l, maxsplit) == split_fields(LStrip(l), maxsplit)

\* s.strip("\n")
StripLF(s) ==
    SubSeq(s, First({i \in 1..Len(s) : s[i] /= LF}),
           Final({i \in 1..Len(s) : s[i] /= LF}))

\* Optional[int]: None, or an integer
NoSize == [null |-> TRUE, n |-> 0]
SizeOf(n) == [null |-> FALSE, n |-> n]

\* size == "-" gives None, any other size field int(size)
ls_size(size) ==
    IF size = <<"-">> THEN Return(NoSize)
    ELSE IF ~IsInt(size) THEN Raise("ValueError")
    ELSE Return(SizeOf(Int_(size)))

\* name = unquote(name.strip("\n")); name = name[len(path):]
ls_name(name, path) ==
    IF name.exc /= "none" THEN name ELSE Return(From(name.val, Len(path)))

\* (otype, smstr(name), size), or the exception of int or of unquote
ls_tuple(otype, name, size) ==
    IF size.exc /= "none" THEN size
    ELSE IF name.exc /= "none" THEN name
    ELSE Return(<<otype, name.val, size.val>>)

\* the five fields of a line made into an entry
ls_fields(fields, path) ==
    IF Len(fields) /= 5 THEN Raise("ValueError")
    ELSE ls_tuple(fields[2], ls_name(unquote(StripLF(fields[5])), path),
                  ls_size(fields[4]))

\* one iteration of "for l in cmd.run()"
ls_line(l, path) == ls_fields(SplitNone(l, 4), path)

\* files.append(...) on the entries of the lines before
ls_append(files, entry) ==
    IF entry.exc /= "none" THEN entry ELSE Return(files.val \o <<entry.val>>)

\* Tree.ls(path) on the lines that git ls-tree printed
RECURSIVE Tree_ls(_, _, _)
Tree_ls(lines, path, files) ==
    IF lines = <<>> \/ files.exc /= "none" THEN files
    ELSE Tree_ls(Tail(lines), path, ls_append(files, ls_line(Head(lines), path)))

\* the names of the entries of a tree, relative to the path listed: plain,
\* with a space inside, at the end and at the front, a space alone, and
\* names that git prints quoted because they hold a double quote or a tab
EntryNames ==
    {<<"a">>, <<"a", SP, "b">>, <<"a", SP>>, <<SP, "a">>, <<SP>>,
     <<QUOTE, "a">>, <<"a", TAB, "b">>}

\* a subtree has no size; a blob has its byte count
EntryKinds ==
    {[otype |-> <<"t", "r", "e", "e">>, size |-> NoSize],
     [otype |-> <<"b", "l", "o", "b">>, size |-> SizeOf(0)],
     [otype |-> <<"b", "l", "o", "b">>, size |-> SizeOf(12)]}

Entries == [kind : EntryKinds, name : EntryNames]

\* the paths listed: the top of the tree and a directory
ListedPaths == {<<>>, <<"d", "/">>}

\* the most entries a listing holds
MaxEntries == 2

LsInputs == [path : ListedPaths, entries : SeqsUpTo(Entries, MaxEntries)]

\* git's quoting of a name: a name that holds a double quote, a backslash
\* or a control character is printed between double quotes with those
\* characters escaped; any other name, spaces included, is printed as it is
RECURSIVE c_escape(_)
c_escape(name) ==
    IF name = <<>> THEN <<>>
    ELSE (CASE Head(name) = QUOTE -> <<BACKSLASH, QUOTE>>
            [] Head(name) = BACKSLASH -> <<BACKSLASH, BACKSLASH>>
            [] Head(name) = TAB -> <<BACKSLASH, "t">>
            [] OTHER -> <<Head(name)>>)
         \o c_escape(Tail(name))

quote_c_style(name) ==
    IF \E i \in 1..Len(name) : name[i] \in {QUOTE, BACKSLASH, TAB}
    THEN <<QUOTE>> \o c_escape(name) \o <<QUOTE>>
    ELSE name

\* the size column: "-" or the byte count, right-aligned in seven columns
size_column(size) ==
    IF size.null THEN <<SP, SP, SP, SP, SP, SP, "-">>
    ELSE [i \in 1..(7 - Len(DecimalText(size.n))) |-> SP] \o DecimalText(size.n)

\* a line of the listing: mode, type, object id, size, a tab, the full name
ls_tree_line(e, path) ==
    (IF e.kind.size.null THEN <<"0", "4", "0", "0", "0", "0">>
     ELSE <<"1", "0", "0", "6", "4", "4">>)
        \o <<SP>> \o e.kind.otype \o <<SP, "o", "1", SP>>
        \o size_column(e.kind.size) \o <<TAB>>
        \o quote_c_style(path \o e.name) \o <<LF>>

ls_tree_output(in) ==
    [i \in 1..Len(in.entries) |-> ls_tree_line(in.entries[i], in.path)]

InitLs == Ready("ls", LsInputs)

ListTree ==
    /\ pc = "ready" /\ fn = "ls"
    /\ res' = Tree_ls(ls_tree_output(arg), arg.path, Return(<<>>))
    /\ pc' = After(res')
    /\ UNCHANGED <<fn, arg, cacheVars>>

SpecLs == InitLs /\ [][ListTree]_vars

----------------------------------------------------------------------------
(* GitCommand: the options, the arguments and the vector that run() hands  *)
(* to run_git.  An object is a record of its fields; _kwargs, a dict, is   *)
(* the sequence of its items in insertion order.                           *)

W_override == <<"_", "o", "v", "e", "r", "r", "i", "d", "e">>
W_raw == <<"_", "r", "a", "w">>
W_stdin_buf == <<"_", "s", "t", "d", "i", "n", "_", "b", "u", "f">>

\* the values of an option: None, or an integer
NoneValue == [null |-> TRUE, n |-> 0]
IntValue(n) == [null |-> FALSE, n |-> n]

\* str(v) of an integer value
str(v) == DecimalText(v.n)

\* GitCommand.__init__(path, cmd)
GitCommand(path, cmd) ==
    [path |-> path, cmd |-> cmd, args |-> <<>>, kwargs |-> <<>>,
     stdin_buf |-> None, raw |-> FALSE, override |-> FALSE]

\* mutant: an option that is assigned again moves behind the others
dict_setitem_moved(d, k, v) ==
    SelectSeq(d, LAMBDA item : item.k /= k) \o <<[k |-> k, v |-> v]>>

\* d[k] = v: a key that d holds keeps its place and takes the value, a new
\* key comes last
dict_setitem(d, k, v) ==
    IF \E i \in 1..Len(d) : d[i].k = k
    THEN [i \in 1..Len(d) |-> IF d[i].k = k THEN [k |-> k, v |-> v] ELSE d[i]]
    ELSE d \o <<[k |-> k, v |-> v]>>

\* self.__dict__[k] = v, for the fields that the methods assign
dict_field(self, k, v) ==
    CASE k = W_override -> [self EXCEPT !.override = v]
      [] k = W_raw -> [self EXCEPT !.raw = v]
      [] k = W_stdin_buf -> [self EXCEPT !.stdin_buf = v]
      [] OTHER -> self

\* GitCommand.__setattr__(k, v)
setattr(self, k, v) ==
    IF k = W_override \/ self.override THEN dict_field(self, k, v)
    ELSE [self EXCEPT !.kwargs = dict_setitem(@, Replace(k, "_", "-"), v)]

\* GitCommand.arg(a)
GitCommand_arg(self, a) == [self EXCEPT !.args = Append(@, a)]

\* GitCommand.raw(b)
GitCommand_raw(self, b) ==
    setattr(setattr(setattr(self, W_override, TRUE), W_raw, b),
            W_override, FALSE)

\* GitCommand.stdin(s)
GitCommand_stdin(self, s) ==
    setattr(setattr(setattr(self, W_override, TRUE), W_stdin_buf, s),
            W_override, FALSE)

\* dash = "--" if len(k) > 1 else "-"
dash(k) == IF Len(k) > 1 THEN <<"-", "-">> ELSE <<"-">>

\* "%s%s" % (dash, k) when v is None, else "%s%s=%s" % (dash, k, str(v))
option_param(item) ==
    IF item.v.null THEN dash(item.k) \o item.k
    ELSE dash(item.k) \o item.k \o <<"=">> \o str(item.v)

\* GitCommand.run(): what run_git is called with
GitCommand_run(self) ==
    Return([params |-> <<self.cmd>>
                        \o [i \in 1..Len(self.kwargs) |->
                                option_param(self.kwargs[i])]
                        \o self.args,
            stdin |-> self.stdin_buf,
            raw |-> self.raw])

\* ---- a caller of GitCommand ----

W_rev_list == <<"r", "e", "v", "-", "l", "i", "s", "t">>
W_max_count == <<"m", "a", "x", "_", "c", "o", "u", "n", "t">>
W_HEAD == <<"H", "E", "A", "D">>

\* the attributes assigned: cmd.max_count and cmd.r
OptionNames == {W_max_count, <<"r">>}
OptionValues == {NoneValue, IntValue(0), IntValue(5)}
Arguments == {W_HEAD, <<"-", "-">>}

\* the most calls made on one GitCommand before run()
MaxOps == 4

\* a call made on the object: which, and the name or argument and value
Op(op, k, v) == [op |-> op, k |-> k, v |-> v]

InitCmd ==
    /\ HandleIdle
    /\ fn = "cmd"
    /\ arg = [obj |-> GitCommand(<<"/">>, W_rev_list), log |-> <<>>]
    /\ res = NoResult
    /\ pc = "ready"

\* arg holds the object and the calls made on it so far
Called(obj, op) ==
    /\ fn = "cmd" /\ Len(arg.log) < MaxOps
    /\ arg' = [obj |-> obj, log |-> Append(arg.log, op)]
    /\ res' = NoResult
    /\ pc' = "ready"
    /\ UNCHANGED <<fn, cacheVars>>

SetOption ==
    \E k \in OptionNames, v \in OptionValues :
        Called(setattr(arg.obj, k, v), Op("set", k, v))

AddArg ==
    \E a \in Arguments : Called(GitCommand_arg(arg.obj, a), Op("arg", a, NoneValue))

SetRaw ==
    Called(GitCommand_raw(arg.obj, TRUE), Op("raw", <<>>, NoneValue))

SetStdin ==
    Called(GitCommand_stdin(arg.obj, <<"i">>), Op("stdin", <<>>, NoneValue))

Run ==
    /\ fn = "cmd" /\ pc = "ready"
    /\ res' = GitCommand_run(arg.obj)
    /\ pc' = After(res')
    /\ UNCHANGED <<fn, arg, cacheVars>>

NextCmd == SetOption \/ AddArg \/ SetRaw \/ SetStdin \/ Run

SpecCmd == InitCmd /\ [][NextCmd]_vars




----------------------------------------------------------------------------
(* Claims about the cache of the handle.                                   *)

\* the keys of method op that a cache of MaxSize entries with
\* least-recently-used eviction holds, by the history of uses
Recent(op) == Range(LastN(recency[op], MaxSize))

----------------------------------------------------------------------------
(* Claims about Date.                                                      *)

\* the offset a zone text sign H1 H2 M1 M2 denotes, in minutes
ZoneMinutes(tz) ==
    (IF tz[1] = "-" THEN -1 ELSE 1)
        * ((10 * DigitOf(tz[2]) + DigitOf(tz[3])) * 60
            + 10 * DigitOf(tz[4]) + DigitOf(tz[5]))

\* C9: for every epoch and zone sign H1 H2 M1 M2, Date computes the offset
\* sign * ((10*H1 + H2) * 60 + 10*M1 + M2) minutes, local = utc + offset, and
\* the local time of day it displays is the UTC time of day shifted by the
\* full HHMM offset modulo 24 hours.
C9_FullOffset ==
    (fn = "Date" /\ pc \in {"done", "raised"}) =>
        /\ res.exc = "none"
        /\ res.val.tz_sec_offset_min = ZoneMinutes(arg.tz)
        /\ res.val.local = res.val.utc + 60 * ZoneMinutes(arg.tz)
        /\ LET tod == res.val.str.hms[1] * 60 + res.val.str.hms[2]
               ltod == res.val.str.local_hm[1] * 60 + res.val.str.local_hm[2]
           IN  ltod = (tod + ZoneMinutes(arg.tz)) % 1440

\* C9 witness: a Date built for a zone whose minutes field is not a
\* multiple of ten minutes below ten
C9_Witness ==
    /\ fn = "Date" /\ pc = "done" /\ res.exc = "none"
    /\ arg.tz[4] /= "0"

----------------------------------------------------------------------------
(* Claims about Repo.commits and Commit.from_str.                          *)

Finished == pc \in {"done", "raised"}

\* the defects C4 names, in a record that holds a line feed: a header line
\* without a space, a missing tree, author or committer header
NamedDefects == {"nospace", "notree", "noauthor", "nocommitter"}

\* every record of the stream is NUL-terminated and holds a line feed
WholeRecords ==
    /\ arg.tail = <<>>
    /\ \A i \in 1..Len(arg.records) : arg.records[i].defect /= "nolf"

\* C3: for a stream of n well-formed NUL-delimited records, n <= limit +
\* offset, Repo.commits(ref, limit, offset) returns exactly the commits built
\* from records offset+1 .. n, in stream order, one per record, and at most
\* limit of them.
C3_PageOfRecords ==
    (/\ fn = "commits" /\ Finished
     /\ arg.tail = <<>>
     /\ \A i \in 1..Len(arg.records) : arg.records[i].defect = "none")
    => /\ pc = "done"
       /\ LET n == Len(arg.records)
              m == IF n > arg.offset THEN n - arg.offset ELSE 0
          IN  /\ res.val = [i \in 1..m |->
                              Commit_from_str(arg.records[arg.offset + i].text).val]
              /\ Len(res.val) <= arg.limit
       /\ \A i \in 1..Len(arg.records) :
            Commit_from_str(arg.records[i].text).exc = "none"

\* C3 witness: a page of two records returned after one skipped record, or
\* one returned after one skipped
C3_Witness ==
    /\ fn = "commits" /\ pc = "done" /\ arg.tail = <<>>
    /\ \A i \in 1..Len(arg.records) : arg.records[i].defect = "none"
    /\ arg.offset = 1 /\ Len(arg.records) >= 2 /\ Len(res.val) >= 1

\* C4 as stated: Repo.commits fails whenever any record of the stream has a
\* header line without a space or lacks a tree, author or committer header,
\* the first offset records included.
C4_AnyBadRecordFails ==
    (/\ fn = "commits" /\ Finished
     /\ arg.tail = <<>>
     /\ \E i \in 1..Len(arg.records) : arg.records[i].defect \in NamedDefects)
    => pc = "raised"

\* C4 as amended: in a stream of NUL-terminated records that each hold a
\* line feed, Repo.commits fails whenever a record after the first offset
\* records has a header line without a space or lacks a tree, author or
\* committer header; the first offset records are not parsed at all, so
\* when every record after them is well-formed the call returns, whatever
\* the skipped records hold.
C4_BadRecordAfterOffsetFails ==
    (fn = "commits" /\ Finished /\ WholeRecords)
    => /\ (\E i \in 1..Len(arg.records) :
                i > arg.offset /\ arg.records[i].defect \in NamedDefects)
            => pc = "raised"
       /\ (\A i \in 1..Len(arg.records) :
                i > arg.offset => arg.records[i].defect = "none")
            => pc = "done"

\* C4 witness: the call returned although a skipped record is malformed
C4_Witness ==
    /\ fn = "commits" /\ pc = "done" /\ WholeRecords
    /\ arg.offset >= 1 /\ Len(arg.records) >= 2
    /\ arg.records[1].defect \in NamedDefects
    /\ Len(res.val) >= 1

\* C5: every Commit that Commit.from_str produces satisfies
\* subject + "\n" + body = message, its subject holds no line feed, and its
\* message is not empty; a record of headers without a message section
\* produces such a Commit too.
C5_SubjectBodyMessage ==
    (fn = "from_str" /\ Finished)
    => /\ res.exc = "none" =>
            /\ res.val.subject \o <<LF>> \o res.val.body = res.val.message
            /\ LF \notin Range(res.val.subject)
            /\ res.val.message /= <<>>
       /\ arg = HeaderText => res.exc = "none"

\* C5 witness: a Commit built from a message of more than one line
C5_Witness ==
    /\ fn = "from_str" /\ pc = "done" /\ res.exc = "none"
    /\ LF \in Range(res.val.body)
    /\ res.val.subject /= <<>>

----------------------------------------------------------------------------
(* Claims about Diff.from_str, unquote and Repo.blob.                      *)

RECURSIVE stat_changes(_)
stat_changes(stats) ==
    IF stats = <<>> THEN <<>> ELSE <<Head(stats).change>> \o stat_changes(Tail(stats))

EmptyStream ==
    arg.ref = <<>> /\ arg.stats = <<>> /\ ~arg.blank /\ arg.body = <<>>

\* C6: on an empty stream Diff.from_str returns a Diff with null ref, no
\* changes and empty body; on a stream of a reference-id line, numstat
\* lines, a blank line and patch lines its ref is the reference id of the
\* first line, its changes are the numstat lines in order with "-" counted
\* as 0, and its body is the text after the blank line, unchanged.
C6_DiffOfStream ==
    (fn = "Diff" /\ Finished)
    => /\ EmptyStream =>
            res = Return([ref |-> None, changes |-> <<>>, body |-> <<>>])
       /\ (arg.ref /= <<>> /\ arg.blank) =>
            /\ res.exc = "none"
            /\ res.val.ref = arg.ref
            /\ res.val.changes = stat_changes(arg.stats)
            /\ res.val.body = arg.body

\* the part of C6 that holds of the code: all of it but the ref, which is
\* the whole first line, line feed included
C6_AllButRef ==
    (fn = "Diff" /\ Finished)
    => /\ EmptyStream =>
            res = Return([ref |-> None, changes |-> <<>>, body |-> <<>>])
       /\ (arg.ref /= <<>> /\ arg.blank) =>
            /\ res.exc = "none"
            /\ res.val.ref = arg.ref \o <<LF>>
            /\ res.val.changes = stat_changes(arg.stats)
            /\ res.val.body = arg.body

\* the stream "-<TAB>3<TAB>file.bin<LF><LF>" and nothing before it
BinaryStatAlone ==
    arg.ref = <<>> /\ arg.stats = <<StatBinary>> /\ arg.blank /\ arg.body = <<>>

\* C7 as stated: Diff.from_str on exactly that stream yields one change
\* record, with added count 0, for the path file.bin.
C7_OneChangeFromTwoLines ==
    (fn = "Diff" /\ Finished /\ BinaryStatAlone)
    => /\ res.exc = "none"
       /\ Len(res.val.changes) = 1
       /\ res.val.changes[1][1] = 0
       /\ res.val.changes[1][3] = W_file_bin

\* C7 as amended: on that stream preceded by a reference-id line,
\* Diff.from_str yields exactly one change record, (0, 3, file.bin); on the
\* two-line stream alone it takes the numstat line for the reference line
\* and yields no change record.
C7_OneChangeAfterRefLine ==
    (fn = "Diff" /\ Finished /\ arg.stats = <<StatBinary>> /\ arg.blank
        /\ arg.body = <<>>)
    => /\ res.exc = "none"
       /\ arg.ref /= <<>> => res.val.changes = <<<<0, 3, W_file_bin>>>>
       /\ arg.ref = <<>> =>
            /\ res.val.changes = <<>>
            /\ res.val.ref = StatBinary.text

\* C7 witness: the stream with its reference line has been parsed
C7_Witness ==
    /\ fn = "Diff" /\ pc = "done" /\ res.exc = "none"
    /\ arg.ref /= <<>> /\ arg.stats = <<StatBinary>> /\ arg.blank
    /\ arg.body = <<>>
    /\ Len(res.val.changes) = 1

\* s is wrapped in a matching pair of double quotes
Wrapped(s) == Len(s) >= 2 /\ s[1] = QUOTE /\ s[Len(s)] = QUOTE

\* C8: for every s not wrapped in a matching pair of double quotes, the
\* empty string and the single double quote included, unquote(s) returns s
\* unchanged and does not fail.
C8_IdentityOnUnquoted ==
    (fn = "unquote" /\ Finished /\ ~Wrapped(arg)) => res = Return(arg)

\* the part of C8 that holds of the code: non-empty names that do not both
\* start and end with a double quote
C8_IdentityOnNonEmpty ==
    (fn = "unquote" /\ Finished /\ arg /= <<>>
        /\ ~(arg[1] = QUOTE /\ arg[Len(arg)] = QUOTE))
    => res = Return(arg)

\* C10: Repo.blob returns None, never a Blob, when the header line ends
\* with the missing marker; when the header announces size N it returns a
\* Blob whose raw_content is exactly the N bytes after the header line,
\* whatever they are, without the line feed that follows them.
C10_BlobContent ==
    (fn = "blob" /\ Finished)
    => /\ arg.missing => res = Return([kind |-> "None", raw_content |-> <<>>])
       /\ ~arg.missing =>
            res = Return([kind |-> "Blob", raw_content |-> arg.content])

\* C10 witness: a Blob whose content holds a NUL and a line feed
C10_Witness ==
    /\ fn = "blob" /\ pc = "done" /\ res.exc = "none"
    /\ res.val.kind = "Blob"
    /\ {NUL, LF} \subseteq Range(res.val.raw_content)

----------------------------------------------------------------------------
(* Claims about Tree.ls.                                                   *)

\* the entries that the listing stands for: type, name without the path
\* listed, size
ListedEntries ==
    [i \in 1..Len(arg.entries) |->
        <<arg.entries[i].kind.otype, arg.entries[i].name,
          arg.entries[i].kind.size>>]

\* C11: for every line of the tree listing Tree.ls(path) returns one entry
\* (type, name, size) in line order: the size is null iff the size field is
\* "-" and the integer size otherwise, and path + name is the dequoted full
\* name that git reported, also for names that hold or begin with whitespace.
C11_EntryPerLine ==
    (fn = "ls" /\ Finished) => res = Return(ListedEntries)

\* the part of C11 that holds of the code: listings in which no full name
\* begins with whitespace
C11_NamesNotLedBySpace ==
    (/\ fn = "ls" /\ Finished
     /\ \A i \in 1..Len(arg.entries) :
            Head(arg.path \o arg.entries[i].name) \notin Whitespace)
    => res = Return(ListedEntries)

----------------------------------------------------------------------------
(* Claims about a rev-list stream that is cut short.                       *)

\* the stream ends with a fragment that no NUL follows, after well-formed
\* records
CutShort ==
    /\ arg.tail /= <<>>
    /\ \A i \in 1..Len(arg.records) : arg.records[i].defect = "none"

\* C12 as stated: when the stream ends with a non-empty fragment that is
\* not followed by a NUL, Repo.commits fails; it never returns a result
\* with a commit built from the fragment.
C12_FragmentFails ==
    (fn = "commits" /\ Finished /\ CutShort) => pc = "raised"

\* C12 as amended: the fragment after the last NUL is one more record.  If
\* it is among the first offset records it is dropped unparsed and the call
\* returns; otherwise Commit.from_str parses it as it is, the call fails
\* exactly when that parse fails, and else returns the commits of the
\* records after the offset followed by the commit built from the fragment.
C12_FragmentIsLastRecord ==
    (fn = "commits" /\ Finished /\ CutShort)
    => LET n == Len(arg.records)
           m == IF n > arg.offset THEN n - arg.offset ELSE 0
           whole == [i \in 1..m |->
                        Commit_from_str(arg.records[arg.offset + i].text).val]
       IN  IF n + 1 <= arg.offset THEN res = Return(<<>>)
           ELSE IF Commit_from_str(arg.tail).exc /= "none"
           THEN pc = "raised" /\ res = Commit_from_str(arg.tail)
           ELSE res = Return(whole \o <<Commit_from_str(arg.tail).val>>)

\* C12 witness: the call returned, after a whole record, a commit built
\* from a fragment that was cut in its message
C12_Witness ==
    /\ fn = "commits" /\ pc = "done" /\ CutShort
    /\ Len(arg.records) >= 1 /\ Len(res.val) >= 2
    /\ res.val[Len(res.val)].id = <<"c", "1">>
    /\ res.val[Len(res.val)].message = <<"s", LF, LF>>

----------------------------------------------------------------------------
(* Claims about GitCommand.                                                *)

\* the calls of the log that are of one kind
OpsOf(log, op) == SelectSeq(log, LAMBDA o : o.op = op)

\* the option assignments of the log, each name at its first assignment
FirstAssignments(log) ==
    LET sets == OpsOf(log, "set")
        firsts == {i \in 1..Len(sets) : \A j \in 1..(i - 1) : sets[j].k /= sets[i].k}
        nth(n) == CHOOSE i \in firsts : Cardinality({j \in firsts : j < i}) = n - 1
    IN  [n \in 1..Cardinality(firsts) |-> sets[nth(n)].k]

\* the value an option was assigned last
LastAssigned(log, k) ==
    LET sets == OpsOf(log, "set")
    IN  sets[Final({i \in 1..Len(sets) : sets[i].k = k})].v

\* an option as the claim renders it
Rendered(k, v) ==
    LET name == [i \in 1..Len(k) |-> IF k[i] = "_" THEN "-" ELSE k[i]]
        hyphens == IF Len(name) = 1 THEN <<"-">> ELSE <<"-", "-">>
    IN  IF v.null THEN hyphens \o name
        ELSE hyphens \o name \o <<"=">> \o DecimalText(v.n)

\* the vector the claim gives for a log of calls
VectorOf(log) ==
    LET names == FirstAssignments(log)
        args == OpsOf(log, "arg")
    IN  <<W_rev_list>>
            \o [n \in 1..Len(names) |->
                    Rendered(names[n], LastAssigned(log, names[n]))]
            \o [i \in 1..Len(args) |-> args[i].k]

\* C13: after any sequence of option assignments and arg() calls, run()
\* produces the subcommand name, then one element per distinct option in the
\* order of first assignment, then the arguments in call order; an option
\* has its underscores replaced by hyphens, one leading hyphen if its name
\* is one character and two otherwise, and is a bare flag when its value is
\* None and name=value otherwise; raw() and stdin() add no element.
C13_ArgumentVector ==
    (fn = "cmd" /\ pc = "done")
    => /\ res.exc = "none"
       /\ res.val.params = VectorOf(arg.log)

\* C13 witness: run() after an option was assigned, a second one was
\* assigned, the first was assigned again, and an argument was added
C13_Witness ==
    /\ fn = "cmd" /\ pc = "done" /\ Len(arg.log) = 4
    /\ arg.log[1].op = "set" /\ arg.log[2].op = "set" /\ arg.log[3].op = "set"
    /\ arg.log[1].k = W_max_count /\ arg.log[2].k = <<"r">>
    /\ arg.log[3].k = W_max_count /\ arg.log[3].v /= arg.log[1].v
    /\ arg.log[4].op = "arg"
    /\ Len(res.val.params) = 4

=============================================================================
